---- MODULE Spec2Model ----
(***************************************************************************)
(* Verification model of the explora voxel viewer: the chunk store         *)
(* (common/src/chunk.rs), the block registry (common/src/block.rs), the    *)
(* chunk mesh builder (explora/src/render/mesh.rs), the voxel renderer's   *)
(* setup, draw loop and index generator (explora/src/render/voxels.rs),    *)
(* the texture atlas (explora/src/render/atlas.rs) and the camera          *)
(* (explora/src/camera.rs).                                                *)
(*                                                                         *)
(* The chunk extent 16 x 256 x 16 is scaled down to SizeX x SizeY x SizeZ; *)
(* every formula of the source is kept in terms of SIZE.                   *)
(***************************************************************************)
EXTENDS Integers, Sequences, FiniteSets, TLC

VARIABLES
    blocks,              \* Chunk.blocks: the flat block array, indexed from 0
    pos,                 \* create_chunk_mesh: the chunk's grid position (Vec2<i32>)
    textures,            \* Atlas.textures: name -> tile id
    cur,                 \* create_chunk_mesh: the loop variables (x, y, z)
    mpc,                 \* create_chunk_mesh: "loop", "done" or "panic"
    mesh,                \* create_chunk_mesh: the Vec<Vertex> being filled
    qpos,                \* the position of the last chunk query
    qres,                \* the results of the last chunk query
    number_of_vertices,  \* compute_voxel_indices: its argument
    iter,                \* compute_voxel_indices: the loop variable i
    indices,             \* compute_voxel_indices: the Vec<u32> being filled
    ipc,                 \* compute_voxel_indices: "loop" or "done"
    dir,                 \* pack_textures: the source directory as the OS lists it
    files,               \* pack_textures: the paths kept by the png filter
    atlas_tile_count,    \* pack_textures: tiles per row and per column
    first_image,         \* pack_textures: width and height of the first image
    image,               \* pack_textures: atlas_width and atlas_height
    fidx,                \* pack_textures: position of `for path in &files`
    id,                  \* pack_textures: the next tile id
    placed,              \* pack_textures: the tiles written into pixels, in order
    tile_size,           \* Atlas.tile_size
    apc,                 \* pack_textures: "start", "opened", "loop", "done",
                         \*   "err" (Err returned) or "panic"
    looked,              \* the last Atlas lookup and its result
    ret,                 \* pack_textures: what it returned
    fcur,                \* Chunk::flat: the loop variables (x, y, z)
    fpc,                 \* Chunk::flat: "loop", "done" or "panic"
    written,             \* Chunk::flat: how often each cell was assigned
    camera,              \* the Camera: pos, rotation, fov, aspect, matrices
    calls,               \* how many Camera methods were called
    returned,            \* what compute_matrices returned last
    chunk_generation,    \* Voxels::new: the (pos, chunk) pairs to mesh
    chunk_meshes,        \* Voxels.chunk_meshes: one vertex buffer per chunk
    vertex_count,        \* Voxels::new: the u32 vertex total
    vpc,                 \* Voxels::new and draw: the position in the code
    draws                \* Voxels::draw: the index ranges drawn, in order

vars == <<blocks, pos, textures, cur, mpc, mesh, qpos, qres,
          number_of_vertices, iter, indices, ipc,
          dir, files, atlas_tile_count, first_image, image, fidx, id, placed,
          tile_size, apc, looked, ret, fcur, fpc, written, camera, calls,
          returned, chunk_generation, chunk_meshes, vertex_count, vpc, draws>>

packVars == <<dir, files, atlas_tile_count, first_image, image, fidx, id,
              placed, tile_size, apc, ret>>

meshVars  == <<pos, cur, mpc, mesh>>
queryVars == <<qpos, qres>>
indexVars == <<number_of_vertices, iter, indices, ipc>>
flatVars  == <<fcur, fpc, written>>
cameraVars == <<camera, calls, returned>>
voxelVars == <<chunk_generation, chunk_meshes, vertex_count, vpc, draws>>
restVars  == <<flatVars, cameraVars, voxelVars>>

----------------------------------------------------------------------------
(* Bounds of the model *)

SizeX == 3          \* Chunk::SIZE.x, scaled down from 16
SizeY == 4          \* Chunk::SIZE.y, scaled down from 256
SizeZ == 3          \* Chunk::SIZE.z, scaled down from 16
MaxGrid == 1        \* chunk grid positions lie within 0..MaxGrid on both axes
Margin == 1         \* chunk queries range Margin cells beyond the extent
StoneTop == 1       \* Chunk::flat: last Stone layer, scaled down from 32
DirtTop == 2        \* Chunk::flat: last Dirt layer, scaled down from 254
GrassLevel == 3     \* Chunk::flat: the Grass layer, scaled down from 255
MaxVertices == 41   \* largest argument given to compute_voxel_indices
MaxCalls == 4       \* most Camera method calls in one behaviour
MaxFiles == 4       \* most entries the source directory holds

----------------------------------------------------------------------------
(* Option<T>: None is the empty sequence, Some(v) the one-element sequence *)

None == <<>>
Some(v) == <<v>>
Unwrap(o) == o[1]

(* A panic (index out of range, unwrap on None) as a value *)
Panic == <<"panic", "panic">>

----------------------------------------------------------------------------
(* common/src/block.rs *)

BlockId == {"Air", "Dirt", "Grass", "Stone"}

is_air(b) == b = "Air"

is_solid(b) == ~is_air(b)

----------------------------------------------------------------------------
(* common/src/chunk.rs *)

Vec3(x, y, z) == [x |-> x, y |-> y, z |-> z]
Vec2(x, y) == [x |-> x, y |-> y]

VAdd(a, b) == Vec3(a.x + b.x, a.y + b.y, a.z + b.z)
VSub(a, b) == Vec3(a.x - b.x, a.y - b.y, a.z - b.z)

zero == Vec3(0, 0, 0)
unit_x == Vec3(1, 0, 0)
unit_y == Vec3(0, 1, 0)
unit_z == Vec3(0, 0, 1)

SIZE == Vec3(SizeX, SizeY, SizeZ)

Volume == SIZE.x * SIZE.y * SIZE.z

is_any_negative(p) == p.x < 0 \/ p.y < 0 \/ p.z < 0

(* A variant of index with the wrong stride for z *)
index_wrong_stride(p) ==
    IF is_any_negative(p) THEN None
    ELSE IF p.x >= SIZE.x \/ p.y >= SIZE.y \/ p.z >= SIZE.z THEN None
    ELSE Some(SIZE.x * SIZE.z * p.z + SIZE.x * p.y + p.x)

index(p) ==
    IF is_any_negative(p) THEN None
    ELSE IF p.x >= SIZE.x \/ p.y >= SIZE.y \/ p.z >= SIZE.z THEN None
    ELSE Some(SIZE.x * SIZE.y * p.z + SIZE.x * p.y + p.x)

(* self.blocks[index]: the array access panics when index is out of range *)
ArrayAt(arr, i) == IF i \in DOMAIN arr THEN Some(arr[i]) ELSE Panic

get(arr, p) ==
    IF is_any_negative(p) THEN None
    ELSE IF index(p) = None THEN None
    ELSE ArrayAt(arr, Unwrap(index(p)))

(* Variants of out_of_bounds with a wrong comparison *)
out_of_bounds_early(p) ==
    \/ is_any_negative(p)
    \/ p.x >= SIZE.x - 1
    \/ p.y >= SIZE.y - 1
    \/ p.z >= SIZE.z - 1

out_of_bounds_late(p) ==
    \/ is_any_negative(p)
    \/ p.x > SIZE.x
    \/ p.y > SIZE.y
    \/ p.z > SIZE.z

out_of_bounds(p) ==
    \/ is_any_negative(p)
    \/ p.x >= SIZE.x
    \/ p.y >= SIZE.y
    \/ p.z >= SIZE.z

----------------------------------------------------------------------------
(* A variant of the match whose Stone range ends one layer early *)
FlatBlockShortStone(y) ==
    IF y < StoneTop THEN "Stone"
    ELSE IF y <= DirtTop THEN "Dirt"
    ELSE IF y = GrassLevel THEN "Grass"
    ELSE "Air"

(* The match of Chunk::flat on the layer y *)
FlatBlock(y) ==
    IF y <= StoneTop THEN "Stone"
    ELSE IF y <= DirtTop THEN "Dirt"
    ELSE IF y = GrassLevel THEN "Grass"
    ELSE "Air"

(* The block array Chunk::flat returns: blocks[index(x, y, z)] = FlatBlock(y) *)
FlatBlocks ==
    [i \in 0 .. Volume - 1 |-> FlatBlock((i % (SIZE.x * SIZE.y)) \div SIZE.x)]

AirBlocks == [i \in 0 .. Volume - 1 |-> "Air"]

(* Chunk contents: the flat chunk, and every array in which all cells hold
   one kind but one cell, which holds any kind *)
ChunkContents ==
    {FlatBlocks} \cup
    { [i \in 0 .. Volume - 1 |-> IF i = s THEN k ELSE f] :
        f \in BlockId, s \in 0 .. Volume - 1, k \in BlockId }

----------------------------------------------------------------------------
(* Chunk queries: index, get and out_of_bounds applied to one position. The
   three are pure, so a behaviour asks them once, of any position. *)

QueryCoords(extent) == (0 - Margin) .. (extent - 1 + Margin)

QueryPositions ==
    { Vec3(x, y, z) : x \in QueryCoords(SIZE.x), y \in QueryCoords(SIZE.y),
                      z \in QueryCoords(SIZE.z) }

NoQuery == [asked |-> FALSE, index |-> None, get |-> None, oob |-> FALSE]

Query(p) ==
    /\ ~qres.asked
    /\ qpos' = p
    /\ qres' = [asked |-> TRUE, index |-> index(p), get |-> get(blocks, p),
                oob |-> out_of_bounds(p)]
    /\ UNCHANGED <<blocks, textures, looked>>
    /\ UNCHANGED packVars
    /\ UNCHANGED meshVars
    /\ UNCHANGED indexVars
    /\ UNCHANGED restVars

----------------------------------------------------------------------------
(* explora/src/render/atlas.rs: lookups *)

(* A variant of get that answers an unknown name with a fresh id *)
GetUnknownFresh(tex, name) ==
    IF name \in DOMAIN tex THEN tex[name] ELSE Cardinality(DOMAIN tex)

(* Atlas::get: the registered id, or 0 (with a warning) for an unknown name *)
Get(tex, name) == IF name \in DOMAIN tex THEN tex[name] ELSE 0

(* A variant of block_texture with the Grass top and side tiles exchanged *)
block_texture_swapped(tex, kind) ==
    IF kind = "Dirt" THEN
        LET d == Get(tex, "dirt") IN <<d, d, d, d, d, d>>
    ELSE IF kind = "Grass" THEN
        LET top == Get(tex, "grass_side")
            side == Get(tex, "grass_top")
            bottom == Get(tex, "dirt")
        IN <<side, side, side, side, top, bottom>>
    ELSE IF kind = "Stone" THEN
        LET s == Get(tex, "stone") IN <<s, s, s, s, s, s>>
    ELSE
        LET d == Get(tex, "default") IN <<d, d, d, d, d, d>>

(* Atlas::block_texture: six ids ordered North, South, East, West, Top, Bottom *)
block_texture(tex, kind) ==
    IF kind = "Dirt" THEN
        LET d == Get(tex, "dirt") IN <<d, d, d, d, d, d>>
    ELSE IF kind = "Grass" THEN
        LET top == Get(tex, "grass_top")
            side == Get(tex, "grass_side")
            bottom == Get(tex, "dirt")
        IN <<side, side, side, side, top, bottom>>
    ELSE IF kind = "Stone" THEN
        LET s == Get(tex, "stone") IN <<s, s, s, s, s, s>>
    ELSE
        LET d == Get(tex, "default") IN <<d, d, d, d, d, d>>

NoLookup == [op |-> "none"]

(* A call of Atlas::get on the packed atlas *)
AtlasGet(name) ==
    /\ apc = "done"
    /\ looked = NoLookup
    /\ looked' = [op |-> "get", name |-> name, id |-> Get(textures, name)]
    /\ UNCHANGED <<blocks, textures>>
    /\ UNCHANGED packVars
    /\ UNCHANGED meshVars
    /\ UNCHANGED queryVars
    /\ UNCHANGED indexVars
    /\ UNCHANGED restVars

(* A call of Atlas::block_texture on the packed atlas *)
AtlasBlockTexture(kind) ==
    /\ apc = "done"
    /\ looked = NoLookup
    /\ looked' = [op |-> "block_texture", kind |-> kind,
                  values |-> block_texture(textures, kind)]
    /\ UNCHANGED <<blocks, textures>>
    /\ UNCHANGED packVars
    /\ UNCHANGED meshVars
    /\ UNCHANGED queryVars
    /\ UNCHANGED indexVars
    /\ UNCHANGED restVars

----------------------------------------------------------------------------
(* explora/src/render/atlas.rs: pack_textures *)

(* File stems met in the source directory *)
Stems == {"default", "dirt", "grass_side", "grass_top", "stone"}

(* Names asked of the atlas: the stems and one that is never a file *)
Names == Stems \cup {"water"}

(* What a directory entry is: a directory, a file png_utils::read fails on,
   a readable image of 16x16 or of 32x32 pixels, or a file without the png
   extension *)
EntryKinds == {"dir", "corrupt", "small", "large", "notpng"}

Entries == [stem : Stems, kind : EntryKinds]

(* std::io::ErrorKind of a failed directory operation *)
ErrorKinds == {"NotFound", "PermissionDenied"}

(* A directory that cannot be opened, or whose listing fails on an entry *)
FailingDirectories ==
    { [status |-> st, kind |-> k, entries |-> <<>>] :
        st \in {"open_err", "list_err"}, k \in ErrorKinds }

(* A directory that lists its entries, none listed yet *)
EmptyDirectory == [status |-> "ok", kind |-> "none", entries |-> <<>>]

IsPng(e) == e.kind # "notpng"

(* png_utils::read(path) succeeds *)
Readable(e) == e.kind \in {"small", "large"}

Width(e) == IF e.kind = "small" THEN 16 ELSE 32
Height(e) == IF e.kind = "small" THEN 16 ELSE 32

(* A variant of CeilSqrt that rounds the root down *)
CeilSqrtFloor(n) == CHOOSE k \in 0 .. n : k * k <= n /\ (k + 1) * (k + 1) > n

(* ((n) as f32).sqrt().ceil() as usize *)
CeilSqrt(n) == CHOOSE k \in 0 .. n : k * k >= n /\ \A j \in 0 .. k - 1 : j * j < n

(* textures.insert(name, id) *)
Insert(tex, name, v) ==
    [n \in DOMAIN tex \cup {name} |-> IF n = name THEN v ELSE tex[n]]

EmptyMap == [n \in {} |-> 0]

NoImage == [width |-> 0, height |-> 0]

(* What pack_textures returned: nothing yet, Ok(Atlas) or
   Err(AtlasError::Io(kind)) *)
NoReturn == [tag |-> "none"]
OkAtlas == [tag |-> "Ok"]
ErrIo(kind) == [tag |-> "Err", error |-> "Io", kind |-> kind]

(* The directory gains one more entry before pack_textures reads it: at most
   MaxFiles entries, no stem twice, in the order the OS lists them *)
DirEntry(e) ==
    /\ apc = "start"
    /\ dir.status = "ok"
    /\ Len(dir.entries) < MaxFiles
    /\ \A i \in 1 .. Len(dir.entries) : dir.entries[i].stem # e.stem
    /\ dir' = [dir EXCEPT !.entries = Append(@, e)]
    /\ UNCHANGED <<files, atlas_tile_count, first_image, image, fidx, id,
                   placed, tile_size, apc, ret>>
    /\ UNCHANGED <<blocks, textures, looked>>
    /\ UNCHANGED meshVars
    /\ UNCHANGED queryVars
    /\ UNCHANGED indexVars
    /\ UNCHANGED restVars

(* std::fs::read_dir(&resource)? ... .collect().unwrap(): an error opening
   the directory is returned as Err(AtlasError::Io); an error on an entry
   panics in the filter's unwrap; otherwise the png paths are kept *)
PackOpen ==
    /\ apc = "start"
    /\ IF dir.status = "open_err"
       THEN apc' = "err" /\ ret' = ErrIo(dir.kind) /\ files' = files
       ELSE IF dir.status = "list_err"
       THEN apc' = "panic" /\ ret' = ret /\ files' = files
       ELSE /\ apc' = "opened"
            /\ ret' = ret
            /\ files' = SelectSeq(dir.entries, IsPng)
    /\ UNCHANGED <<dir, atlas_tile_count, first_image, image, fidx, id, placed,
                   tile_size>>
    /\ UNCHANGED <<blocks, textures, looked>>
    /\ UNCHANGED meshVars
    /\ UNCHANGED queryVars
    /\ UNCHANGED indexVars
    /\ UNCHANGED restVars

(* From atlas_tile_count to `let mut id = 1`: files[0] panics on an empty
   list and the unwrap panics when the first file cannot be read *)
PackSetup ==
    /\ apc = "opened"
    /\ atlas_tile_count' = CeilSqrt(Len(files) + 1)
    /\ IF files = <<>> \/ ~Readable(files[1])
       THEN /\ apc' = "panic"
            /\ UNCHANGED <<first_image, image, fidx, id, placed, textures>>
       ELSE /\ apc' = "loop"
            /\ first_image' = [width |-> Width(files[1]), height |-> Height(files[1])]
            /\ image' = [width |-> Width(files[1]) * atlas_tile_count',
                         height |-> Height(files[1]) * atlas_tile_count']
            /\ placed' = <<[id |-> 0, pixel_x |-> 0, pixel_y |-> 0]>>
            /\ textures' = Insert(EmptyMap, "default", 0)
            /\ id' = 1
            /\ fidx' = 1
    /\ UNCHANGED <<dir, files, tile_size, ret>>
    /\ UNCHANGED <<blocks, looked>>
    /\ UNCHANGED meshVars
    /\ UNCHANGED queryVars
    /\ UNCHANGED indexVars
    /\ UNCHANGED restVars

(* The pixel rows and columns the copy loop writes lie inside the buffer *)
SlotInside(px, py) ==
    /\ px + first_image.width <= image.width
    /\ py + first_image.height <= image.height

(* A variant of Rejected that lets an image of another size through *)
RejectedIgnoringSize(path, first) ==
    \/ path.kind = "dir"
    \/ ~Readable(path)

(* The three `continue`s of the loop: a directory, a failed read, a size
   other than the first image's *)
Rejected(path, first) ==
    \/ path.kind = "dir"
    \/ ~Readable(path)
    \/ Width(path) # first.width
    \/ Height(path) # first.height

(* One iteration of `for path in &files` *)
PackFile ==
    /\ apc = "loop"
    /\ fidx <= Len(files)
    /\ fidx' = fidx + 1
    /\ LET path == files[fidx]
           pixel_x == (id % atlas_tile_count) * first_image.width
           pixel_y == (id \div atlas_tile_count) * first_image.height
       IN
       IF Rejected(path, first_image)
       THEN UNCHANGED <<id, placed, textures, apc>>
       ELSE IF ~SlotInside(pixel_x, pixel_y)
       THEN apc' = "panic" /\ UNCHANGED <<id, placed, textures>>
       ELSE /\ placed' = Append(placed, [id |-> id, pixel_x |-> pixel_x,
                                          pixel_y |-> pixel_y])
            /\ textures' = Insert(textures, path.stem, id)
            /\ id' = id + 1
            /\ apc' = apc
    /\ UNCHANGED <<dir, files, atlas_tile_count, first_image, image, tile_size,
                   ret>>
    /\ UNCHANGED <<blocks, looked>>
    /\ UNCHANGED meshVars
    /\ UNCHANGED queryVars
    /\ UNCHANGED indexVars
    /\ UNCHANGED restVars

(* The loop is over: the atlas is written out and returned *)
PackReturn ==
    /\ apc = "loop"
    /\ fidx > Len(files)
    /\ apc' = "done"
    /\ tile_size' = first_image.width
    /\ ret' = OkAtlas
    /\ UNCHANGED <<dir, files, atlas_tile_count, first_image, image, fidx, id,
                   placed>>
    /\ UNCHANGED <<blocks, textures, looked>>
    /\ UNCHANGED meshVars
    /\ UNCHANGED queryVars
    /\ UNCHANGED indexVars
    /\ UNCHANGED restVars

----------------------------------------------------------------------------
(* explora/src/render/mesh.rs *)

(* f32 arithmetic on whole numbers. An f32 has a 24-bit significand: whole
   numbers up to 2^24 in magnitude are exact, beyond that the representable
   values lie Ulp apart and a result is rounded to the nearest of them, to
   the even significand on a tie. *)
RECURSIVE Ulp(_)
Ulp(a) == IF a < 2^24 THEN 1 ELSE 2 * Ulp(a \div 2)

RoundEven(a, u) ==
    LET lo == (a \div u) * u
        r == a - lo
    IN  IF 2 * r < u THEN lo
        ELSE IF 2 * r > u THEN lo + u
        ELSE IF (lo \div u) % 2 = 0 THEN lo
        ELSE lo + u

(* `n as f32`, and the result of an f32 operation whose exact value is n *)
F32(n) == IF n < 0 THEN 0 - RoundEven(0 - n, Ulp(0 - n)) ELSE RoundEven(n, Ulp(n))

(* Vec3<f32> + Vec3<f32> *)
VAddF(a, b) == Vec3(F32(a.x + b.x), F32(a.y + b.y), F32(a.z + b.z))

Sides == <<"North", "South", "East", "West", "Top", "Bottom">>

Vertex(v, texture_id) == [pos |-> v, texture_id |-> texture_id]

(* The cell whose bounds are tested for each side *)
Neighbor(origin, side) ==
    CASE side = "North"  -> VAdd(origin, unit_z)
      [] side = "South"  -> VSub(origin, unit_z)
      [] side = "East"   -> VAdd(origin, unit_x)
      [] side = "West"   -> VSub(origin, unit_x)
      [] side = "Top"    -> VAdd(origin, unit_y)
      [] side = "Bottom" -> VSub(origin, unit_y)

(* The four cube corners pushed for each side, in the order pushed *)
Corners(side) ==
    CASE side = "North" ->
           << VAdd(VAdd(unit_x, unit_y), unit_z), VAdd(unit_x, unit_z),
              VAdd(zero, unit_z), VAdd(unit_y, unit_z) >>
      [] side = "South" ->
           << unit_y, zero, unit_x, VAdd(unit_x, unit_y) >>
      [] side = "East" ->
           << VAdd(unit_x, unit_y), unit_x, VAdd(unit_x, unit_z),
              VAdd(VAdd(unit_x, unit_z), unit_y) >>
      [] side = "West" ->
           << VAdd(unit_z, unit_y), unit_z, zero, unit_y >>
      [] side = "Top" ->
           << VAdd(unit_z, unit_y), unit_y, VAdd(unit_y, unit_x),
              VAdd(VAdd(unit_y, unit_x), unit_z) >>
      [] side = "Bottom" ->
           << zero, unit_z, VAdd(unit_z, unit_x), unit_x >>

(* The match on the block kind: Some(tile id), or None where the code
   says `continue`. The bottom face has no match: its tile is always 0. *)
FaceTile(side, block) ==
    IF side = "Bottom" THEN Some(0)
    ELSE IF block = "Dirt" THEN Some(0)
    ELSE IF block = "Grass" THEN (IF side = "Top" THEN Some(2) ELSE Some(1))
    ELSE None

(* A variant of Face that misses the last push *)
FaceMissingPush(side, offset, tile) ==
    [k \in 1 .. 3 |-> Vertex(VAddF(Corners(side)[k], offset), tile)]

(* The four mesh.push calls of one side *)
Face(side, offset, tile) ==
    [k \in 1 .. 4 |-> Vertex(VAddF(Corners(side)[k], offset), tile)]

(* A variant of Offset that takes the two grid coordinates the wrong way round *)
OffsetSwapped(p, origin) ==
    Vec3(F32(F32(F32(p.y) * F32(SIZE.x)) + F32(origin.x)),
         F32(origin.y),
         F32(F32(F32(p.x) * F32(SIZE.z)) + F32(origin.z)))

(* let offset = ...: the cell's world position, computed in f32 *)
Offset(p, origin) ==
    Vec3(F32(F32(F32(p.x) * F32(SIZE.x)) + F32(origin.x)),
         F32(origin.y),
         F32(F32(F32(p.y) * F32(SIZE.z)) + F32(origin.z)))

(* The body of the innermost loop from side number s on: the vertices it
   pushes for one cell. `continue` ends the cell: no later side is tried. *)
RECURSIVE CellVertices(_, _, _, _)
CellVertices(block, origin, offset, s) ==
    IF s > Len(Sides) THEN <<>>
    ELSE IF out_of_bounds(Neighbor(origin, Sides[s])) THEN
        LET tile == FaceTile(Sides[s], block) IN
        IF tile = None THEN <<>>
        ELSE Face(Sides[s], offset, Unwrap(tile))
                \o CellVertices(block, origin, offset, s + 1)
    ELSE CellVertices(block, origin, offset, s + 1)

(* for x in 0..SIZE.x { for y in 0..SIZE.y { for z in 0..SIZE.z *)
NextCell(c) ==
    IF c.z + 1 < SIZE.z THEN Some(Vec3(c.x, c.y, c.z + 1))
    ELSE IF c.y + 1 < SIZE.y THEN Some(Vec3(c.x, c.y + 1, 0))
    ELSE IF c.x + 1 < SIZE.x THEN Some(Vec3(c.x + 1, 0, 0))
    ELSE None

(* One iteration of the innermost loop of create_chunk_mesh *)
MeshCell ==
    /\ mpc = "loop"
    /\ LET block == get(blocks, cur) IN
       IF block = None \/ block = Panic
       THEN /\ mpc' = "panic"
            /\ UNCHANGED <<cur, mesh>>
       ELSE /\ mesh' = mesh \o CellVertices(Unwrap(block), cur, Offset(pos, cur), 1)
            /\ IF NextCell(cur) = None
               THEN mpc' = "done" /\ cur' = cur
               ELSE mpc' = "loop" /\ cur' = Unwrap(NextCell(cur))
    /\ UNCHANGED <<blocks, pos, textures, looked>>
    /\ UNCHANGED packVars
    /\ UNCHANGED queryVars
    /\ UNCHANGED indexVars
    /\ UNCHANGED restVars

----------------------------------------------------------------------------
(* explora/src/render/voxels.rs: compute_voxel_indices *)

(* A variant of QuadIndices that closes the second triangle on the next quad *)
QuadIndicesOpen(offset) ==
    <<offset, offset + 1, offset + 2, offset + 2, offset + 3, offset + 4>>

(* The six indices of one group of four vertices. The values are u32; below
   2^32 no addition wraps. *)
QuadIndices(offset) ==
    <<offset, offset + 1, offset + 2, offset + 2, offset + 3, offset>>

(* One iteration of for i in 0..number_of_vertices / 4 *)
IndexStep ==
    /\ ipc = "loop"
    /\ iter < number_of_vertices \div 4
    /\ indices' = indices \o QuadIndices(iter * 4)
    /\ iter' = iter + 1
    /\ UNCHANGED <<number_of_vertices, ipc>>
    /\ UNCHANGED <<blocks, textures, looked>>
    /\ UNCHANGED packVars
    /\ UNCHANGED meshVars
    /\ UNCHANGED queryVars
    /\ UNCHANGED restVars

(* The loop ends and indices is returned *)
IndexReturn ==
    /\ ipc = "loop"
    /\ ~(iter < number_of_vertices \div 4)
    /\ ipc' = "done"
    /\ UNCHANGED <<number_of_vertices, iter, indices>>
    /\ UNCHANGED <<blocks, textures, looked>>
    /\ UNCHANGED packVars
    /\ UNCHANGED meshVars
    /\ UNCHANGED queryVars
    /\ UNCHANGED restVars

----------------------------------------------------------------------------
(* Atlases handed to the mesh builder by Voxels::new *)

DefaultOnly == [n \in {"default"} |-> 0]

BlockAtlas ==
    [n \in {"default", "dirt", "grass_side", "grass_top"} |->
        CASE n = "default" -> 0
          [] n = "dirt" -> 1
          [] n = "grass_side" -> 2
          [] n = "grass_top" -> 3]

(* The grid origin and the grid positions on the diagonal x + z = MaxGrid *)
GridPositions ==
    {Vec2(0, 0)} \cup { Vec2(x, MaxGrid - x) : x \in 0 .. MaxGrid }

(* Grid positions far from the origin, where whole numbers are no longer all
   f32 values *)
FarPositions == {Vec2(2^23, 0), Vec2(1, 0 - 2^24)}

(* Chunks of one kind throughout, and the flat chunk *)
UniformContents ==
    {FlatBlocks} \cup { [i \in 0 .. Volume - 1 |-> f] : f \in BlockId }

----------------------------------------------------------------------------
(* common/src/chunk.rs: Chunk::flat *)

(* No cell assigned yet *)
NoWrites == [i \in 0 .. Volume - 1 |-> 0]

(* One iteration of the innermost loop of Chunk::flat: index(..).unwrap()
   panics on None, blocks[index] panics outside the array *)
FlatCell ==
    /\ fpc = "loop"
    /\ LET i == index(fcur) IN
       IF i = None \/ ArrayAt(blocks, Unwrap(i)) = Panic
       THEN /\ fpc' = "panic"
            /\ UNCHANGED <<blocks, fcur, written>>
       ELSE /\ blocks' = [blocks EXCEPT ![Unwrap(i)] = FlatBlock(fcur.y)]
            /\ written' = [written EXCEPT ![Unwrap(i)] = @ + 1]
            /\ IF NextCell(fcur) = None
               THEN fpc' = "done" /\ fcur' = fcur
               ELSE fpc' = "loop" /\ fcur' = Unwrap(NextCell(fcur))
    /\ UNCHANGED <<textures, looked>>
    /\ UNCHANGED packVars
    /\ UNCHANGED meshVars
    /\ UNCHANGED queryVars
    /\ UNCHANGED indexVars
    /\ UNCHANGED cameraVars
    /\ UNCHANGED voxelVars

(* A chunk query on the chunk Chunk::flat returned *)
FlatQuery(p) ==
    /\ fpc = "done"
    /\ Query(p)

----------------------------------------------------------------------------
(* explora/src/camera.rs *)

(* Angles are whole micro-radians and mouse deltas whole degrees; the
   aspect ratio, the planes and the matrix entries are fractions in lowest
   terms. *)

Abs(n) == IF n < 0 THEN 0 - n ELSE n

RECURSIVE Gcd(_, _)
Gcd(a, b) == IF b = 0 THEN a ELSE Gcd(b, a % b)

Rat(n, d) ==
    LET g == Gcd(Abs(n), Abs(d))
        sign == IF d < 0 THEN 0 - 1 ELSE 1
    IN  [num |-> sign * (n \div g), den |-> sign * (d \div g)]

RAdd(a, b) == Rat(a.num * b.den + b.num * a.den, a.den * b.den)
RSub(a, b) == Rat(a.num * b.den - b.num * a.den, a.den * b.den)
RMul(a, b) == Rat(a.num * b.num, a.den * b.den)
RDiv(a, b) == Rat(a.num * b.den, a.den * b.num)

NEAR_PLANE == Rat(1, 10)
FAR_PLANE == Rat(1000, 1)

FRAC_PI_2 == 1570796     \* f32::consts::FRAC_PI_2 = 1.5707964, in micro-radians
Epsilon == 100           \* 0.0001 rad, in micro-radians
MicroPerDegree == 17453  \* to_radians: pi / 180 = 0.017453292, in micro-radians

(* f32::to_radians *)
ToRadians(degrees) == degrees * MicroPerDegree

(* A variant of Clamp that forgets the lower bound *)
ClampUpperOnly(v, lo, hi) == IF v > hi THEN hi ELSE v

(* f32::clamp *)
Clamp(v, lo, hi) == IF v < lo THEN lo ELSE IF v > hi THEN hi ELSE v

(* (fov / 2).tan(): the camera's fov is only ever FRAC_PI_2, and
   tan(pi / 4) = 1 *)
TanHalf(fov) == CASE fov = FRAC_PI_2 -> Rat(1, 1)

(* Mat4f::perspective_lh_no: the entries of the matrix that are not 0 *)
Perspective(fov, aspect, near, far) ==
    [m00 |-> RDiv(Rat(1, 1), RMul(aspect, TanHalf(fov))),
     m11 |-> RDiv(Rat(1, 1), TanHalf(fov)),
     m22 |-> RDiv(RAdd(far, near), RSub(far, near)),
     m23 |-> RDiv(RMul(Rat(0 - 2, 1), RMul(far, near)), RSub(far, near)),
     m32 |-> Rat(1, 1)]

(* Mat4f::identity() *)
Identity == [identity |-> TRUE]

(* Mat4f::look_at_lh(pos, pos + forward(), unit_y): forward() is a function
   of the rotation, so the view matrix is one of pos and rotation. It is
   kept as that pair; the trigonometry is not evaluated. *)
LookAt(cam) == [eye |-> cam.pos, rotation |-> cam.rotation]

NoCamera == [created |-> FALSE]
NoMatrices == [created |-> FALSE]

(* Camera::new *)
New(aspect) ==
    [pos |-> [start |-> Vec3(0, 260, 0), moves |-> <<>>],
     rotation |-> Vec2(0 - 1500000, 0),
     aspect |-> aspect,
     fov |-> FRAC_PI_2,
     matrices |-> [proj |-> Perspective(FRAC_PI_2, aspect, NEAR_PLANE, FAR_PLANE),
                   view |-> Identity]]

(* A variant of WithAspect that stores the aspect and keeps the old matrix *)
WithAspectStale(cam, aspect) == [cam EXCEPT !.aspect = aspect]

(* The body of set_aspect_ratio *)
WithAspect(cam, aspect) ==
    [cam EXCEPT !.aspect = aspect,
                !.matrices.proj = Perspective(cam.fov, aspect, NEAR_PLANE, FAR_PLANE)]

(* The body of rotate_by *)
Rotated(cam, dx, dy) ==
    [cam EXCEPT !.rotation =
        Vec2(cam.rotation.x + ToRadians(dx),
             Clamp(cam.rotation.y + (0 - ToRadians(dy)),
                   (0 - FRAC_PI_2) + Epsilon, FRAC_PI_2 - Epsilon))]

(* The body of move_by: the displacement dz * forward_xz() + -dx * right()
   + unit_y * dy is a function of the rotation and of the three arguments.
   pos is kept as its start and the displacements added to it. *)
Moved(cam, dx, dy, dz) ==
    [cam EXCEPT !.pos.moves =
        Append(@, [rotation |-> cam.rotation, by |-> Vec3(dx, dy, dz)])]

(* Aspect ratios, mouse deltas (dx, dy) and movements (dx, dy, dz) given to
   the camera *)
Aspects == {Rat(1, 1), Rat(4, 3), Rat(16, 9)}

RotateDeltas == {<<30, 0 - 200>>, <<0 - 90, 200>>, <<30, 45>>, <<0 - 90, 0 - 45>>,
                 <<0, 0>>}

MoveDeltas == {<<1, 0, 0>>, <<0, 1, 0 - 1>>}

Call(op, args) == [op |-> op, args |-> args]

set_aspect_ratio(aspect) ==
    /\ camera # NoCamera
    /\ Len(calls) <= MaxCalls
    /\ camera' = WithAspect(camera, aspect)
    /\ calls' = Append(calls, Call("set_aspect_ratio", <<aspect>>))
    /\ UNCHANGED returned
    /\ UNCHANGED <<blocks, textures, looked>>
    /\ UNCHANGED packVars
    /\ UNCHANGED meshVars
    /\ UNCHANGED queryVars
    /\ UNCHANGED indexVars
    /\ UNCHANGED flatVars
    /\ UNCHANGED voxelVars

rotate_by(dx, dy) ==
    /\ camera # NoCamera
    /\ Len(calls) <= MaxCalls
    /\ camera' = Rotated(camera, dx, dy)
    /\ calls' = Append(calls, Call("rotate_by", <<dx, dy>>))
    /\ UNCHANGED returned
    /\ UNCHANGED <<blocks, textures, looked>>
    /\ UNCHANGED packVars
    /\ UNCHANGED meshVars
    /\ UNCHANGED queryVars
    /\ UNCHANGED indexVars
    /\ UNCHANGED flatVars
    /\ UNCHANGED voxelVars

move_by(dx, dy, dz) ==
    /\ camera # NoCamera
    /\ Len(calls) <= MaxCalls
    /\ camera' = Moved(camera, dx, dy, dz)
    /\ calls' = Append(calls, Call("move_by", <<dx, dy, dz>>))
    /\ UNCHANGED returned
    /\ UNCHANGED <<blocks, textures, looked>>
    /\ UNCHANGED packVars
    /\ UNCHANGED meshVars
    /\ UNCHANGED queryVars
    /\ UNCHANGED indexVars
    /\ UNCHANGED flatVars
    /\ UNCHANGED voxelVars

compute_matrices ==
    /\ camera # NoCamera
    /\ Len(calls) <= MaxCalls
    /\ camera' = [camera EXCEPT !.matrices.view = LookAt(camera)]
    /\ returned' = [proj |-> camera.matrices.proj, view |-> LookAt(camera)]
    /\ calls' = Append(calls, Call("compute_matrices", <<>>))
    /\ UNCHANGED <<blocks, textures, looked>>
    /\ UNCHANGED packVars
    /\ UNCHANGED meshVars
    /\ UNCHANGED queryVars
    /\ UNCHANGED indexVars
    /\ UNCHANGED flatVars
    /\ UNCHANGED voxelVars

----------------------------------------------------------------------------
(* explora/src/render/voxels.rs: Voxels::new and Voxels::draw *)

(* for x in 0..3 { for z in 0..3 { .. } }: chunks per row of the test geometry *)
GridSide == 3

(* The test geometry: a flat chunk at every grid position, x outermost *)
TestGeometry ==
    [k \in 1 .. GridSide * GridSide |->
        [pos |-> Vec2((k - 1) \div GridSide, (k - 1) % GridSide),
         chunk |-> FlatBlocks]]

(* let mut chunk_generation = vec![]; .. let mut vertex_count = 0; *)
VoxelsGenerate ==
    /\ vpc = "start"
    /\ chunk_generation' = TestGeometry
    /\ chunk_meshes' = <<>>
    /\ vertex_count' = 0
    /\ vpc' = "next"
    /\ UNCHANGED draws
    /\ UNCHANGED <<blocks, textures, looked>>
    /\ UNCHANGED packVars
    /\ UNCHANGED meshVars
    /\ UNCHANGED queryVars
    /\ UNCHANGED indexVars
    /\ UNCHANGED flatVars
    /\ UNCHANGED cameraVars

(* for (pos, chunk) in chunk_generation { let mut chunk_mesh = vec![];
   and the call of create_chunk_mesh *)
VoxelsBeginMesh ==
    /\ vpc = "next"
    /\ Len(chunk_meshes) < Len(chunk_generation)
    /\ LET next == chunk_generation[Len(chunk_meshes) + 1] IN
       /\ blocks' = next.chunk
       /\ pos' = next.pos
    /\ mesh' = <<>>
    /\ cur' = zero
    /\ mpc' = "loop"
    /\ vpc' = "mesh"
    /\ UNCHANGED <<chunk_generation, chunk_meshes, vertex_count, draws>>
    /\ UNCHANGED <<textures, looked>>
    /\ UNCHANGED packVars
    /\ UNCHANGED queryVars
    /\ UNCHANGED indexVars
    /\ UNCHANGED flatVars
    /\ UNCHANGED cameraVars

(* create_chunk_mesh has returned: chunk_meshes.push(Buffer::new(..));
   vertex_count += chunk_mesh.len() as u32. The count is a u32; below 2^32
   the addition does not wrap. *)
VoxelsPush ==
    /\ vpc = "mesh"
    /\ mpc = "done"
    /\ chunk_meshes' = Append(chunk_meshes, mesh)
    /\ vertex_count' = vertex_count + Len(mesh)
    /\ vpc' = "next"
    /\ UNCHANGED <<chunk_generation, draws>>
    /\ UNCHANGED <<blocks, textures, looked>>
    /\ UNCHANGED packVars
    /\ UNCHANGED meshVars
    /\ UNCHANGED queryVars
    /\ UNCHANGED indexVars
    /\ UNCHANGED flatVars
    /\ UNCHANGED cameraVars

(* The loop is over: the call compute_voxel_indices(vertex_count as usize) *)
VoxelsIndices ==
    /\ vpc = "next"
    /\ Len(chunk_meshes) = Len(chunk_generation)
    /\ number_of_vertices' = vertex_count
    /\ iter' = 0
    /\ indices' = <<>>
    /\ ipc' = "loop"
    /\ vpc' = "indices"
    /\ UNCHANGED <<chunk_generation, chunk_meshes, vertex_count, draws>>
    /\ UNCHANGED <<blocks, textures, looked>>
    /\ UNCHANGED packVars
    /\ UNCHANGED meshVars
    /\ UNCHANGED queryVars
    /\ UNCHANGED flatVars
    /\ UNCHANGED cameraVars

(* compute_voxel_indices has returned: index_buffer holds indices and
   Voxels::new returns Self *)
VoxelsReturn ==
    /\ vpc = "indices"
    /\ ipc = "done"
    /\ vpc' = "ready"
    /\ UNCHANGED <<chunk_generation, chunk_meshes, vertex_count, draws>>
    /\ UNCHANGED <<blocks, textures, looked>>
    /\ UNCHANGED packVars
    /\ UNCHANGED meshVars
    /\ UNCHANGED queryVars
    /\ UNCHANGED indexVars
    /\ UNCHANGED flatVars
    /\ UNCHANGED cameraVars

(* A variant of DrawRange that forgets the division by four *)
DrawRangePerVertex(len) == [start |-> 0, end |-> len * 6]

(* 0..chunk_mesh.len() / 4 * 6 *)
DrawRange(len) == [start |-> 0, end |-> (len \div 4) * 6]

(* One iteration of `for chunk_mesh in &self.chunk_meshes` in draw: the
   range of the index buffer drawn over the chunk's vertex buffer *)
VoxelsDraw ==
    /\ vpc = "ready"
    /\ Len(draws) < Len(chunk_meshes)
    /\ draws' = Append(draws, DrawRange(Len(chunk_meshes[Len(draws) + 1])))
    /\ UNCHANGED <<chunk_generation, chunk_meshes, vertex_count, vpc>>
    /\ UNCHANGED <<blocks, textures, looked>>
    /\ UNCHANGED packVars
    /\ UNCHANGED meshVars
    /\ UNCHANGED queryVars
    /\ UNCHANGED indexVars
    /\ UNCHANGED flatVars
    /\ UNCHANGED cameraVars

----------------------------------------------------------------------------
(* Specifications *)

IdleMesh ==
    /\ pos = Vec2(0, 0)
    /\ cur = zero
    /\ mpc = "idle"
    /\ mesh = <<>>

IdleQuery ==
    /\ qpos = zero
    /\ qres = NoQuery

IdleIndex ==
    /\ number_of_vertices = 0
    /\ iter = 0
    /\ indices = <<>>
    /\ ipc = "idle"

IdlePack ==
    /\ dir = EmptyDirectory
    /\ files = <<>>
    /\ atlas_tile_count = 0
    /\ first_image = NoImage
    /\ image = NoImage
    /\ fidx = 0
    /\ id = 0
    /\ placed = <<>>
    /\ tile_size = 0
    /\ apc = "idle"
    /\ looked = NoLookup
    /\ ret = NoReturn

IdleFlat ==
    /\ fcur = zero
    /\ fpc = "idle"
    /\ written = <<>>

IdleCamera ==
    /\ camera = NoCamera
    /\ calls = <<>>
    /\ returned = NoMatrices

IdleVoxels ==
    /\ chunk_generation = <<>>
    /\ chunk_meshes = <<>>
    /\ vertex_count = 0
    /\ vpc = "idle"
    /\ draws = <<>>

IdleRest ==
    /\ IdleFlat
    /\ IdleCamera
    /\ IdleVoxels

(* create_chunk_mesh on one chunk, as Voxels::new calls it *)
InitMesh ==
    /\ blocks \in ChunkContents
    /\ pos \in GridPositions
    /\ textures = BlockAtlas
    /\ cur = zero
    /\ mpc = "loop"
    /\ mesh = <<>>
    /\ IdlePack
    /\ IdleQuery
    /\ IdleIndex
    /\ IdleRest

NextMesh == MeshCell

(* create_chunk_mesh at any grid position an i32 pair can name *)
InitMeshFar ==
    /\ blocks \in UniformContents
    /\ pos \in GridPositions \cup FarPositions
    /\ textures = BlockAtlas
    /\ cur = zero
    /\ mpc = "loop"
    /\ mesh = <<>>
    /\ IdlePack
    /\ IdleQuery
    /\ IdleIndex
    /\ IdleRest

SpecMeshFar == InitMeshFar /\ [][NextMesh]_vars

SpecMesh == InitMesh /\ [][NextMesh]_vars

(* The chunk queries on one chunk *)
InitQuery ==
    /\ blocks \in ChunkContents
    /\ textures = DefaultOnly
    /\ IdleMesh
    /\ IdlePack
    /\ IdleQuery
    /\ IdleIndex
    /\ IdleRest

NextQuery == \E p \in QueryPositions : Query(p)

SpecQuery == InitQuery /\ [][NextQuery]_vars

(* compute_voxel_indices on one vertex count *)
InitIndex ==
    /\ blocks = AirBlocks
    /\ textures = DefaultOnly
    /\ IdleMesh
    /\ IdlePack
    /\ IdleQuery
    /\ number_of_vertices \in 0 .. MaxVertices
    /\ iter = 0
    /\ indices = <<>>
    /\ ipc = "loop"
    /\ IdleRest

NextIndex == IndexStep \/ IndexReturn

SpecIndex == InitIndex /\ [][NextIndex]_vars

(* Chunk::flat, then one query on the chunk it returns *)
InitFlat ==
    /\ blocks = AirBlocks
    /\ textures = DefaultOnly
    /\ fcur = zero
    /\ fpc = "loop"
    /\ written = NoWrites
    /\ IdleMesh
    /\ IdlePack
    /\ IdleQuery
    /\ IdleIndex
    /\ IdleCamera
    /\ IdleVoxels

NextFlat ==
    \/ FlatCell
    \/ \E p \in QueryPositions : FlatQuery(p)

(* The loop of Chunk::flat runs on until it returns *)
SpecFlat == InitFlat /\ [][NextFlat]_vars /\ WF_vars(FlatCell)

(* A camera made by Camera::new, then at most MaxCalls calls of its methods *)
InitCamera ==
    /\ blocks = AirBlocks
    /\ textures = DefaultOnly
    /\ \E aspect \in Aspects :
          /\ camera = New(aspect)
          /\ calls = <<Call("new", <<aspect>>)>>
    /\ returned = NoMatrices
    /\ IdleMesh
    /\ IdlePack
    /\ IdleQuery
    /\ IdleIndex
    /\ IdleFlat
    /\ IdleVoxels

NextCamera ==
    \/ \E aspect \in Aspects : set_aspect_ratio(aspect)
    \/ \E d \in RotateDeltas : rotate_by(d[1], d[2])
    \/ \E d \in MoveDeltas : move_by(d[1], d[2], d[3])
    \/ compute_matrices

SpecCamera == InitCamera /\ [][NextCamera]_vars

(* Voxels::new, then one pass of Voxels::draw *)
InitVoxels ==
    /\ blocks = AirBlocks
    /\ textures = BlockAtlas
    /\ chunk_generation = <<>>
    /\ chunk_meshes = <<>>
    /\ vertex_count = 0
    /\ vpc = "start"
    /\ draws = <<>>
    /\ IdleMesh
    /\ IdlePack
    /\ IdleQuery
    /\ IdleIndex
    /\ IdleFlat
    /\ IdleCamera

NextVoxels ==
    \/ VoxelsGenerate
    \/ VoxelsBeginMesh
    \/ MeshCell
    \/ VoxelsPush
    \/ VoxelsIndices
    \/ IndexStep
    \/ IndexReturn
    \/ VoxelsReturn
    \/ VoxelsDraw

SpecVoxels == InitVoxels /\ [][NextVoxels]_vars

(* pack_textures on one directory, then one lookup in the atlas it returns *)
InitAtlas ==
    /\ blocks = AirBlocks
    /\ IdleMesh
    /\ IdleQuery
    /\ IdleIndex
    /\ dir \in FailingDirectories \cup {EmptyDirectory}
    /\ files = <<>>
    /\ atlas_tile_count = 0
    /\ first_image = NoImage
    /\ image = NoImage
    /\ fidx = 0
    /\ id = 0
    /\ placed = <<>>
    /\ tile_size = 0
    /\ textures = EmptyMap
    /\ apc = "start"
    /\ looked = NoLookup
    /\ ret = NoReturn
    /\ IdleRest

NextAtlas ==
    \/ \E e \in Entries : DirEntry(e)
    \/ PackOpen
    \/ PackSetup
    \/ PackFile
    \/ PackReturn
    \/ \E name \in Names : AtlasGet(name)
    \/ \E kind \in BlockId : AtlasBlockTexture(kind)

SpecAtlas == InitAtlas /\ [][NextAtlas]_vars

----------------------------------------------------------------------------
(* Vocabulary of the mesh properties *)

Cells == { Vec3(x, y, z) : x \in 0 .. SizeX - 1, y \in 0 .. SizeY - 1,
                           z \in 0 .. SizeZ - 1 }

SideSet == {"North", "South", "East", "West", "Top", "Bottom"}

SideIndex(side) == CHOOSE i \in 1 .. 6 : Sides[i] = side

(* Inside the declared extent, stated from the extent alone *)
InExtent(p) ==
    /\ p.x \in 0 .. SizeX - 1
    /\ p.y \in 0 .. SizeY - 1
    /\ p.z \in 0 .. SizeZ - 1

(* The block stored for an in-extent cell, read from the array directly *)
BlockAt(c) == blocks[SizeX * SizeY * c.z + SizeX * c.y + c.x]

(* The exposure rule: the neighbouring cell is outside the chunk or Air *)
Exposed(c, side) ==
    \/ ~InExtent(Neighbor(c, side))
    \/ BlockAt(Neighbor(c, side)) = "Air"

(* The plane of the unit cube that a side names *)
OnPlane(side, c) ==
    CASE side = "North"  -> c.z = 1
      [] side = "South"  -> c.z = 0
      [] side = "East"   -> c.x = 1
      [] side = "West"   -> c.x = 0
      [] side = "Top"    -> c.y = 1
      [] side = "Bottom" -> c.y = 0

(* q is four vertices at four different corners of side `side` of the unit
   cube placed at `off` *)
IsFaceOf(q, side, off) ==
    /\ Len(q) = 4
    /\ Cardinality({ q[k].pos : k \in 1 .. 4 }) = 4
    /\ \A k \in 1 .. 4 :
          LET c == VSub(q[k].pos, off) IN
          /\ c.x \in {0, 1} /\ c.y \in {0, 1} /\ c.z \in {0, 1}
          /\ OnPlane(side, c)

QuadCount(m) == Len(m) \div 4

QuadAt(m, k) == SubSeq(m, 4 * k - 3, 4 * k)

(* How many complete groups of four in m are a face on `side` of the cube at off *)
FacesOn(m, side, off) ==
    Cardinality({ k \in 1 .. QuadCount(m) : IsFaceOf(QuadAt(m, k), side, off) })

(* The vertices pushed by the step being taken *)
Pushed == SubSeq(mesh', Len(mesh) + 1, Len(mesh'))

CellStep == mpc = "loop" /\ mpc' # "panic"

(* A chunk holding one Stone block, not on the chunk's hull, and Air elsewhere *)
SingleStone(c) ==
    /\ \A n \in SideSet : InExtent(Neighbor(c, n))
    /\ \A d \in Cells : BlockAt(d) = (IF d = c THEN "Stone" ELSE "Air")

----------------------------------------------------------------------------
(* C1: every solid block gets exactly one 4-vertex face on every side whose
   neighbouring cell is out of bounds or Air, whatever its kind and whatever
   its other sides; a single Stone block with Air on all six sides yields
   24 vertices. *)
C1_ExposedFaceEmitted ==
    [][ CellStep =>
          /\ is_solid(BlockAt(cur)) =>
                \A side \in SideSet :
                    Exposed(cur, side) =>
                        FacesOn(Pushed, side, Offset(pos, cur)) = 1
          /\ (mpc' = "done" /\ \E c \in Cells : SingleStone(c)) =>
                Len(mesh') = 24
      ]_vars

(* C2: no face is emitted on a side whose neighbouring cell is in bounds and
   solid; a block whose six neighbours are all in-bounds solid blocks
   contributes no vertex. *)
C2_NoFaceTowardsSolid ==
    [][ CellStep =>
          /\ \A side \in SideSet :
                (InExtent(Neighbor(cur, side)) /\ BlockAt(Neighbor(cur, side)) # "Air")
                    => FacesOn(Pushed, side, Offset(pos, cur)) = 0
          /\ (\A side \in SideSet :
                InExtent(Neighbor(cur, side)) /\ BlockAt(Neighbor(cur, side)) # "Air")
                    => Pushed = <<>>
      ]_vars

Enclosed(c) ==
    /\ BlockAt(c) # "Air"
    /\ \A side \in SideSet :
          InExtent(Neighbor(c, side)) /\ BlockAt(Neighbor(c, side)) # "Air"

(* A finished mesh of a chunk with an enclosed block, some faces emitted, none
   of them on the enclosed block's cube *)
C2_Witness ==
    /\ mpc = "done"
    /\ Len(mesh) > 0
    /\ \E c \in Cells :
          /\ Enclosed(c)
          /\ \A side \in SideSet : FacesOn(mesh, side, Offset(pos, c)) = 0

(* C3: a chunk in which every cell is Air yields an empty mesh. *)
C3_AirChunkEmptyMesh ==
    (\A c \in Cells : BlockAt(c) = "Air") => mesh = <<>>

(* C4: the mesh is empty at the start and every cell, left early or not,
   appends a multiple of 4 vertices, so the mesh length is a multiple of 4
   wherever processing of a cell ends; every group of 4 appended vertices is
   one face of the cell's block: four corners of one side of its cube,
   carrying one tile id, and no two groups are on the same side. *)
C4_VerticesInFours ==
    /\ Len(mesh) % 4 = 0
    /\ [][ CellStep =>
             /\ Len(mesh) % 4 = 0
             /\ Len(mesh') % 4 = 0
             /\ \A k \in 1 .. QuadCount(Pushed) :
                   LET q == QuadAt(Pushed, k) IN
                   /\ \A a, b \in 1 .. 4 : q[a].texture_id = q[b].texture_id
                   /\ \E side \in SideSet :
                         /\ IsFaceOf(q, side, Offset(pos, cur))
                         /\ FacesOn(Pushed, side, Offset(pos, cur)) = 1
         ]_vars

(* A finished, non-empty mesh of a chunk away from the grid origin in which
   some cell was left early (a Stone block on the hull) *)
C4_Witness ==
    /\ mpc = "done"
    /\ Len(mesh) >= 8
    /\ pos # Vec2(0, 0)
    /\ \E c \in Cells : BlockAt(c) = "Stone" /\ ~InExtent(Neighbor(c, "North"))

(* C6: the four vertices of every face emitted for a block of kind K on side
   S carry the tile id block_texture(K).values[i], i the index of S. *)
C6_TileFromAtlas ==
    [][ CellStep =>
          \A k \in 1 .. QuadCount(Pushed) : \A side \in SideSet :
              IsFaceOf(QuadAt(Pushed, k), side, Offset(pos, cur)) =>
                  \A a \in 1 .. 4 :
                      QuadAt(Pushed, k)[a].texture_id
                          = block_texture(textures, BlockAt(cur))[SideIndex(side)]
      ]_vars

----------------------------------------------------------------------------
(* C5: compute_voxel_indices(n) returns exactly (n / 4) * 6 indices, the
   k-th group of six being [4k, 4k+1, 4k+2, 4k+2, 4k+3, 4k], and every index
   is below n. *)
C5_IndexFan ==
    ipc = "done" =>
        /\ Len(indices) = (number_of_vertices \div 4) * 6
        /\ \A k \in 0 .. (number_of_vertices \div 4) - 1 :
              SubSeq(indices, 6 * k + 1, 6 * k + 6)
                  = <<4 * k, 4 * k + 1, 4 * k + 2, 4 * k + 2, 4 * k + 3, 4 * k>>
        /\ \A j \in 1 .. Len(indices) : indices[j] < number_of_vertices

(* The index list of a vertex count that is no multiple of 4, several groups long *)
C5_Witness ==
    /\ ipc = "done"
    /\ number_of_vertices % 4 # 0
    /\ Len(indices) >= 18

(* C9: out_of_bounds(p) is true iff some coordinate is negative or at or
   beyond the extent; index(p) and get(p) are None iff out_of_bounds(p);
   none of them panics; for an in-bounds p, get(p) is the block stored at
   index(p). *)
C9_QueriesAgree ==
    qres.asked =>
        /\ qres.oob <=> ~InExtent(qpos)
        /\ (qres.index = None) <=> qres.oob
        /\ (qres.get = None) <=> qres.oob
        /\ qres.get # Panic
        /\ InExtent(qpos) => qres.get = Some(blocks[Unwrap(qres.index)])

(* Queries answered for a position with a negative coordinate, for one with a
   coordinate equal to the extent, and for an in-bounds one *)
C9_Witness ==
    /\ qres.asked
    /\ qpos.x < 0
    /\ qpos.y = SizeY
    /\ qres.oob
    /\ qres.get = None

(* C10: for an in-bounds p = (x, y, z), index(p) = SIZE.x*SIZE.y*z +
   SIZE.x*y + x; no other in-bounds position has the same index; the index
   lies in [0, SIZE.x*SIZE.y*SIZE.z), so get's array access is in range. *)
C10_IndexInjective ==
    (qres.asked /\ InExtent(qpos)) =>
        /\ qres.index = Some(SizeX * SizeY * qpos.z + SizeX * qpos.y + qpos.x)
        /\ Unwrap(qres.index) \in 0 .. (SizeX * SizeY * SizeZ - 1)
        /\ Unwrap(qres.index) \in DOMAIN blocks
        /\ \A q \in Cells : q # qpos => index(q) # qres.index
        /\ qres.get # Panic

(* The index of the last cell of the chunk, the largest one *)
C10_Witness ==
    /\ qres.asked
    /\ qpos = Vec3(SizeX - 1, SizeY - 1, SizeZ - 1)
    /\ qres.index = Some(SizeX * SizeY * SizeZ - 1)
    /\ qres.get # None

----------------------------------------------------------------------------
(* Vocabulary of the atlas properties *)

(* The id a name resolves to: its registered id, 0 when it has none *)
Resolved(name) == IF name \in DOMAIN textures THEN textures[name] ELSE 0

SixOf(v) == <<v, v, v, v, v, v>>

(* C7: block_texture(Grass) is [side, side, side, side, top, bottom] in the
   order North, South, East, West, Top, Bottom, with side = get("grass_side"),
   top = get("grass_top") and bottom = get("dirt"), which is every entry of
   block_texture(Dirt); block_texture(Dirt) and block_texture(Stone) are six
   times get("dirt") and six times get("stone"). *)
C7_BlockTextureOrder ==
    looked.op = "block_texture" =>
        /\ looked.kind = "Grass" =>
              /\ \A side \in {"North", "South", "East", "West"} :
                    looked.values[SideIndex(side)] = Resolved("grass_side")
              /\ looked.values[SideIndex("Top")] = Resolved("grass_top")
              /\ looked.values[SideIndex("Bottom")] = Resolved("dirt")
              /\ \A i \in 1 .. 6 :
                    block_texture(textures, "Dirt")[i] = looked.values[SideIndex("Bottom")]
              /\ Len(looked.values) = 6
        /\ looked.kind = "Dirt" => looked.values = SixOf(Resolved("dirt"))
        /\ looked.kind = "Stone" => looked.values = SixOf(Resolved("stone"))

(* The Grass texture of an atlas that holds its three tiles under three ids *)
C7_Witness ==
    /\ looked.op = "block_texture"
    /\ looked.kind = "Grass"
    /\ {"grass_side", "grass_top", "dirt"} \subseteq DOMAIN textures
    /\ looked.values[1] # looked.values[5]
    /\ looked.values[5] # looked.values[6]
    /\ looked.values[1] # looked.values[6]

(* C8: on an atlas made by pack_textures, get returns the registered id of a
   name in the map and 0 for any other name; so the six ids of block_texture
   lie in [0, M) for every block kind, M the number of tile ids assigned
   (the placeholder and the accepted source tiles). *)
C8_LookupFallsBack ==
    /\ looked.op = "get" =>
          /\ looked.name \in DOMAIN textures => looked.id = textures[looked.name]
          /\ looked.name \notin DOMAIN textures => looked.id = 0
    /\ looked.op = "block_texture" =>
          \A i \in 1 .. 6 : looked.values[i] \in 0 .. Len(placed) - 1
    /\ apc = "done" => Len(placed) = id

(* The Stone texture of an atlas with two accepted tiles and no stone tile *)
C8_Witness ==
    /\ looked.op = "block_texture"
    /\ looked.kind = "Stone"
    /\ "stone" \notin DOMAIN textures
    /\ looked.values = SixOf(0)
    /\ Len(placed) >= 3

----------------------------------------------------------------------------
(* Chunk::flat *)

(* The layer Chunk::flat is specified to put at height y *)
LayerAt(y) ==
    IF 0 <= y /\ y <= StoneTop THEN "Stone"
    ELSE IF StoneTop < y /\ y <= DirtTop THEN "Dirt"
    ELSE IF y = GrassLevel THEN "Grass"
    ELSE "Air"

FlatLayers ==
    /\ fpc # "panic"
    /\ \A i \in DOMAIN written : written[i] <= 1
    /\ fpc = "done" => \A i \in DOMAIN written : written[i] = 1
    /\ (fpc = "done" /\ qres.asked /\ InExtent(qpos))
          => qres.get = Some(LayerAt(qpos.y))

(* C11: Chunk::flat returns without a panic, having assigned every cell
   exactly once, and on the chunk it returns get answers Stone on the layers
   0..StoneTop, Dirt on StoneTop+1..DirtTop and Grass on GrassLevel, whatever
   x and z are *)
C11_FlatLayers == [](FlatLayers) /\ <>(fpc = "done")

C11_Witness ==
    /\ fpc = "done"
    /\ qres.asked
    /\ InExtent(qpos)
    /\ qpos.x = SizeX - 1
    /\ qpos.y = GrassLevel
    /\ qres.get = Some("Grass")

----------------------------------------------------------------------------
(* Vocabulary of the packing properties *)

(* The files the loop has gone through *)
Processed == SubSeq(files, 1, fidx - 1)

(* A source tile: a readable image of the reference tile's dimensions *)
IsSourceTile(e) ==
    /\ e.kind \in {"small", "large"}
    /\ Width(e) = first_image.width
    /\ Height(e) = first_image.height

(* The source tiles gone through, in enumeration order *)
Accepted == SelectSeq(Processed, IsSourceTile)

(* k is the least integer whose square is at least n *)
IsCeilSqrt(k, n) == k * k >= n /\ (k = 0 \/ (k - 1) * (k - 1) < n)

(* C12: the atlas has ceil(sqrt(N + 1)) tiles per side, N the number of
   source tiles given an id, and its image that many tiles each way *)
C12_SideFromAccepted ==
    apc = "done" =>
        /\ IsCeilSqrt(atlas_tile_count, Len(Accepted) + 1)
        /\ image.width = atlas_tile_count * tile_size
        /\ image.height = atlas_tile_count * first_image.height

(* C13: the placeholder has id 0 and the k-th source tile in enumeration
   order has id k, its stem mapped to k; a directory, an unreadable file and
   an image of another size take no id and add no name to the map *)
C13_IdsInOrder ==
    apc \in {"loop", "done"} =>
        /\ Len(placed) = Len(Accepted) + 1
        /\ \A k \in 1 .. Len(placed) : placed[k].id = k - 1
        /\ id = Len(Accepted) + 1
        /\ \A k \in 1 .. Len(Accepted) : textures[Accepted[k].stem] = k
        /\ DOMAIN textures
             = {"default"} \cup { Accepted[k].stem : k \in 1 .. Len(Accepted) }
        /\ (\A k \in 1 .. Len(Accepted) : Accepted[k].stem # "default")
             => textures["default"] = 0

C13_Witness ==
    /\ apc = "done"
    /\ Len(files) = 4
    /\ \A i \in 1 .. 3 : files[i].kind = "small"
    /\ files[4].kind = "large"
    /\ { placed[k].id : k \in 1 .. Len(placed) } = 0 .. 3

(* All the enumerated png paths are image files, one of them readable *)
ImageFilesOnly ==
    /\ dir.status = "ok"
    /\ files # <<>>
    /\ \A i \in 1 .. Len(files) : files[i].kind \in {"corrupt", "small", "large"}
    /\ \E i \in 1 .. Len(files) : Readable(files[i])

FirstReadable == CHOOSE i \in 1 .. Len(files) :
    Readable(files[i]) /\ \A j \in 1 .. i - 1 : ~Readable(files[j])

(* C14: an image file that cannot be read, at any position of the list, the
   first included, is skipped: pack_textures neither panics nor returns an
   error, takes the tile size from the first file it can read and leaves
   the unreadable file out of the atlas *)
C14_UnreadableSkipped ==
    (ImageFilesOnly /\ apc \notin {"start", "opened"}) =>
        /\ apc \in {"loop", "done"}
        /\ apc = "done" =>
              /\ ret = OkAtlas
              /\ tile_size = Width(files[FirstReadable])
              /\ \A i \in 1 .. Len(files) :
                    (files[i].kind = "corrupt" /\ files[i].stem # "default")
                        => files[i].stem \notin DOMAIN textures

(* C15: an I/O error on opening the directory or on listing its entries
   makes pack_textures return Err(AtlasError::Io(kind)) with the error's
   kind, never a panic and never an Ok atlas *)
C15_DirectoryErrorsReturned ==
    (dir.status \in {"open_err", "list_err"} /\ apc # "start") =>
        /\ apc = "err"
        /\ ret = ErrIo(dir.kind)

(* C20: every id given to a source tile is at least 1 and below
   tile_count * tile_count; its slot (id % tile_count, id / tile_count) lies
   inside the pixel buffer, no two tiles share a slot and slot 0 keeps the
   placeholder *)
C20_SlotsInside ==
    /\ apc = "panic" => fidx = 0
    /\ \A k \in 2 .. Len(placed) :
          /\ 1 <= placed[k].id
          /\ placed[k].id < atlas_tile_count * atlas_tile_count
          /\ placed[k].pixel_x
               = (placed[k].id % atlas_tile_count) * first_image.width
          /\ placed[k].pixel_y
               = (placed[k].id \div atlas_tile_count) * first_image.height
          /\ placed[k].pixel_x + first_image.width <= image.width
          /\ placed[k].pixel_y + first_image.height <= image.height
          /\ ~(placed[k].pixel_x = 0 /\ placed[k].pixel_y = 0)
    /\ \A j, k \in 1 .. Len(placed) :
          j # k => \/ placed[j].pixel_x # placed[k].pixel_x
                   \/ placed[j].pixel_y # placed[k].pixel_y
    /\ placed # <<>> => placed[1] = [id |-> 0, pixel_x |-> 0, pixel_y |-> 0]

C20_Witness ==
    /\ apc = "done"
    /\ Len(placed) = 4
    /\ \E i \in 1 .. Len(files) : ~Readable(files[i])
    /\ \E k \in 2 .. Len(placed) : placed[k].pixel_y > 0

----------------------------------------------------------------------------
(* Vertex positions *)

(* The world position of a cell, in whole numbers *)
WorldOffset(p, c) == Vec3(p.x * SizeX + c.x, c.y, p.y * SizeZ + c.z)

(* The sides of the cell whose neighbour is outside the chunk, in the order
   the code tries them *)
HullSide(side) == ~InExtent(Neighbor(cur, side))

HullSides == SelectSeq(Sides, HullSide)

(* The faces pushed for the cell are, in order, faces of its hull sides:
   each vertex is a corner of the unit cube at the cell's world position,
   on the plane of the side *)
FacesAtWorldOffset ==
    /\ QuadCount(Pushed) <= Len(HullSides)
    /\ \A k \in 1 .. QuadCount(Pushed) : \A a \in 1 .. 4 :
          LET c == VSub(QuadAt(Pushed, k)[a].pos, WorldOffset(pos, cur)) IN
          /\ c.x \in {0, 1} /\ c.y \in {0, 1} /\ c.z \in {0, 1}
          /\ OnPlane(HullSides[k], c)

(* Every coordinate of the chunk's cells and of their cube corners is a
   whole number of magnitude at most 2^24 *)
WithinExactRange(p) ==
    /\ Abs(p.x * SizeX) + SizeX <= 2^24
    /\ Abs(p.y * SizeZ) + SizeZ <= 2^24

(* C18 as stated: at every chunk grid position, every vertex of every
   emitted face is a unit-cube corner plus (cx*SIZE.x + x, y, cz*SIZE.z + z),
   on the side the face is for *)
C18_AnyGridPosition == [][ CellStep => FacesAtWorldOffset ]_vars

(* C18: at every chunk grid position whose world coordinates are at most
   2^24 in magnitude, every vertex of every emitted face is a unit-cube
   corner plus (cx*SIZE.x + x, y, cz*SIZE.z + z), on the side the face is
   for *)
C18_FaceCorners ==
    [][ (CellStep /\ WithinExactRange(pos)) => FacesAtWorldOffset ]_vars

C18_Witness ==
    /\ mpc = "done"
    /\ pos = Vec2(0, MaxGrid)
    /\ blocks = FlatBlocks
    /\ Len(mesh) >= 8
    /\ \E k \in 1 .. Len(mesh) : mesh[k].pos.z = (MaxGrid + 1) * SizeZ

----------------------------------------------------------------------------
(* C19: for every chunk mesh of v vertices built by Voxels::new, the index
   range 0 .. (v/4)*6 that draw uses for it does not go past the end of the
   shared index buffer, and every index in that range is below v *)
C19_DrawWithinBuffers ==
    \A k \in 1 .. Len(draws) :
        LET v == Len(chunk_meshes[k]) IN
        /\ draws[k].start = 0
        /\ draws[k].end = (v \div 4) * 6
        /\ draws[k].end <= Len(indices)
        /\ \A j \in 1 .. draws[k].end : indices[j] < v

C19_Witness ==
    /\ vpc = "ready"
    /\ Len(draws) = GridSide * GridSide
    /\ \A k \in 1 .. Len(draws) : draws[k].end >= 6
    /\ Len(indices) > draws[1].end

----------------------------------------------------------------------------
(* Vocabulary of the camera properties *)

LastCall == calls[Len(calls)]

(* The sum of the yaw deltas of the rotate_by calls among the first n calls,
   in radians *)
RECURSIVE YawTurned(_)
YawTurned(n) ==
    IF n = 0 THEN 0
    ELSE YawTurned(n - 1)
           + (IF calls[n].op = "rotate_by" THEN ToRadians(calls[n].args[1]) ELSE 0)

(* The aspect of the last call that set one: new or set_aspect_ratio *)
LastAspect ==
    LET n == CHOOSE i \in 1 .. Len(calls) :
                 /\ calls[i].op \in {"new", "set_aspect_ratio"}
                 /\ \A j \in i + 1 .. Len(calls) :
                       calls[j].op \notin {"new", "set_aspect_ratio"}
    IN  calls[n].args[1]

RotateStep ==
    /\ Len(calls') = Len(calls) + 1
    /\ calls'[Len(calls')].op = "rotate_by"

PitchInRange ==
    /\ camera.rotation.y >= (0 - FRAC_PI_2) + Epsilon
    /\ camera.rotation.y <= FRAC_PI_2 - Epsilon
    /\ camera.rotation.y > 0 - FRAC_PI_2
    /\ camera.rotation.y < FRAC_PI_2
    /\ camera.rotation.x = New(LastAspect).rotation.x + YawTurned(Len(calls))

(* C16: after any rotate_by calls on a new camera the pitch lies within
   [-pi/2 + 0.0001, pi/2 - 0.0001], strictly inside +-90 degrees; the yaw is
   the sum of the yaw deltas, unclamped; rotate_by changes neither the
   position nor the projection matrix *)
C16_PitchClamped ==
    /\ [](PitchInRange)
    /\ [][ RotateStep => /\ camera'.pos = camera.pos
                          /\ camera'.matrices.proj = camera.matrices.proj ]_vars

C16_Witness ==
    /\ camera.rotation.y = FRAC_PI_2 - Epsilon
    /\ camera.rotation.x < 0 - 3 * FRAC_PI_2
    /\ Cardinality({ i \in 1 .. Len(calls) : calls[i].op = "rotate_by" }) >= 3
    /\ \E i \in 1 .. Len(calls) : calls[i].op = "move_by"

(* C17: whatever calls came before, the projection matrix compute_matrices
   returns is the one of a new camera of the last aspect set, and the stored
   projection matrix is that one after every call *)
C17_ProjectionFromLastAspect ==
    /\ camera.matrices.proj = New(LastAspect).matrices.proj
    /\ LastCall.op = "compute_matrices"
          => returned.proj = New(LastAspect).matrices.proj

C17_Witness ==
    /\ LastCall.op = "compute_matrices"
    /\ calls[1].args[1] # LastAspect
    /\ \E i \in 1 .. Len(calls) : calls[i].op = "rotate_by"
    /\ \E i \in 1 .. Len(calls) : calls[i].op = "move_by"
    /\ returned.proj = New(LastAspect).matrices.proj
    /\ returned.proj # New(calls[1].args[1]).matrices.proj

----------------------------------------------------------------------------
(* C21: after pack_textures returns Ok, whatever the directory holds, a file
   of stem "default" included, get("default") is 0, no source file's name
   maps to id 0, no two names share an id, and block_texture(Air) is six
   times id 0 *)
C21_PlaceholderKeepsIdZero ==
    apc = "done" =>
        /\ Get(textures, "default") = 0
        /\ (looked # NoLookup /\ looked.op = "get" /\ looked.name = "default")
              => looked.id = 0
        /\ \A k \in 1 .. Len(Accepted) : textures[Accepted[k].stem] # 0
        /\ \A a, b \in DOMAIN textures : a # b => textures[a] # textures[b]
        /\ block_texture(textures, "Air") = SixOf(0)

====
